---- MODULE Spec2Model ----
(***************************************************************************)
(* Temporal feature aggregation of the Real Madrid match analyzer:         *)
(* season registry, season points-per-match, tiered statistics, last-N     *)
(* form and head-to-head statistics, computed over an in-memory match      *)
(* table.                                                                  *)
(*                                                                         *)
(* Encodings.  A date YYYY-MM-DD is the integer YYYYMMDD, which keeps the  *)
(* order of dates.  A PPM value is held in tenths of a point (1.9 is 19).  *)
(* A float quotient a / b is the record Num(a, b); two quotients are the   *)
(* same float value when they cross-multiply equal.  Python's None, True,  *)
(* False and numpy's nan are the records PyNone, PyTrue, PyFalse and NaN;  *)
(* an uncaught exception is the record Raised.  real_result is held        *)
(* doubled (win 2, draw 1, loss 0).                                        *)
(***************************************************************************)
EXTENDS Integers, Sequences, FiniteSets, TLC

VARIABLES all_matches, out

vars == <<all_matches, out>>

\* ------------------------------------------------------------------------
\* Values
\* ------------------------------------------------------------------------
PyNone == [kind |-> "None"]

PyTrue == [kind |-> "True"]

PyFalse == [kind |-> "False"]

NaN == [kind |-> "nan"]

Raised == [kind |-> "raised"]

Num(a, b) == [kind |-> "num", n |-> a, d |-> b]

IsNum(v) == v.kind = "num"

\* An absence marker: None, NaN or False.
IsAbsent(v) == v.kind \in {"None", "nan", "False"}

\* The float value of quotient v equals the float value of quotient w.
NumEq(v, w) == IsNum(v) /\ IsNum(w) /\ v.n * w.d = w.n * v.d

\* A cell of an integer column that is NaN.
NaNCell == -1

\* pd.isna of a cell.
isna(cell) == cell = NaNCell

\* ------------------------------------------------------------------------
\* Configuration
\* ------------------------------------------------------------------------
WIN_POINTS == 3

DRAW_POINTS == 1

TOP_TIER_MIN_PPM == 19

MID_TIER_MIN_PPM == 12

MID_TIER_MAX_PPM == 19

LOW_TIER_MAX_PPM == 12

REAL_MADRID_ID == 1

\* Season ranges with the second season starting before the first has ended.
SEASON_DATES_overlapping ==
    << <<20190816, 20200719>>,
       <<20200701, 20210523>>,
       <<20210813, 20220522>>,
       <<20220812, 20230604>>,
       <<20230811, 20240526>>,
       <<20240816, 20250316>> >>

SEASON_DATES ==
    << <<20190816, 20200719>>,
       <<20200912, 20210523>>,
       <<20210813, 20220522>>,
       <<20220812, 20230604>>,
       <<20230811, 20240526>>,
       <<20240816, 20250316>> >>

SEASON_NAMES ==
    << "2019-2020", "2020-2021", "2021-2022", "2022-2023", "2023-2024", "2024-2025" >>

\* ------------------------------------------------------------------------
\* SeasonManager
\* ------------------------------------------------------------------------
seasons ==
    [i \in 1..Len(SEASON_DATES) |->
        [kind |-> "season", name |-> SEASON_NAMES[i],
         start_date |-> SEASON_DATES[i][1], end_date |-> SEASON_DATES[i][2]]]

\* get_season with the end date of a season left out of its range.
get_season_end_excluded(match_date) ==
    LET hits == {i \in DOMAIN seasons :
                    /\ seasons[i].start_date <= match_date
                    /\ match_date < seasons[i].end_date}
    IN  IF hits = {} THEN PyNone
        ELSE seasons[CHOOSE i \in hits : \A j \in hits : i <= j]

\* The first season of the list, in list order, whose range holds the date.
get_season(match_date) ==
    LET hits == {i \in DOMAIN seasons :
                    /\ seasons[i].start_date <= match_date
                    /\ match_date <= seasons[i].end_date}
    IN  IF hits = {} THEN PyNone
        ELSE seasons[CHOOSE i \in hits : \A j \in hits : i <= j]

\* get_previous_season answering None for the earliest season.
get_previous_season_no_sentinel(season) ==
    IF season.kind = "None" THEN PyNone
    ELSE LET hits == {i \in DOMAIN seasons : seasons[i].name = season.name}
         IN  IF hits = {} THEN PyNone
             ELSE LET current_index == CHOOSE i \in hits : \A j \in hits : i <= j
                  IN  IF current_index = 1 THEN PyNone
                      ELSE seasons[current_index - 1]

\* `if not season` sends None to None; the name is then looked up in the list,
\* and a name that is not in it ends the search with StopIteration.
get_previous_season(season) ==
    IF season.kind = "None" THEN PyNone
    ELSE LET hits == {i \in DOMAIN seasons : seasons[i].name = season.name}
         IN  IF hits = {} THEN PyNone
             ELSE LET current_index == CHOOSE i \in hits : \A j \in hits : i <= j
                  IN  IF current_index = 1 THEN PyTrue
                      ELSE seasons[current_index - 1]

\* ------------------------------------------------------------------------
\* Match table
\* ------------------------------------------------------------------------
\* A row of all_matches.csv.
Row(date, home, away, hg, ag, ppm_h, ppm_a) ==
    [match_date |-> date, home_team_id |-> home, away_team_id |-> away,
     home_goals |-> hg, away_goals |-> ag, PPM_H |-> ppm_h, PPM_A |-> ppm_a]

plays(m, team_id) == m.home_team_id = team_id \/ m.away_team_id = team_id

\* RM_all_matches_stats.csv: the rows of the table that involve Real Madrid.
rm_matches(matches) == {m \in matches : plays(m, REAL_MADRID_ID)}

\* Column 'result' of a row: "H", "D" or "A".
result(m) ==
    IF m.home_goals > m.away_goals THEN "H"
    ELSE IF m.home_goals = m.away_goals THEN "D" ELSE "A"

\* Column 'real_result' of a Real Madrid row, doubled: 2 win, 1 draw, 0 loss.
real_result(m) ==
    IF m.home_team_id = REAL_MADRID_ID /\ result(m) = "H" THEN 2
    ELSE IF m.home_team_id # REAL_MADRID_ID /\ result(m) = "A" THEN 2
    ELSE IF result(m) = "D" THEN 1 ELSE 0

\* Column 'goals' of a Real Madrid row: the goals of Real Madrid's players.
goals(m) == IF m.home_team_id = REAL_MADRID_ID THEN m.home_goals ELSE m.away_goals

RECURSIVE SumOf(_, _)
\* Sum of f[m] over the rows m of S (pandas Series.sum; 0 on no row).
SumOf(f, S) ==
    IF S = {} THEN 0
    ELSE LET m == CHOOSE x \in S : TRUE IN f[m] + SumOf(f, S \ {m})

\* ------------------------------------------------------------------------
\* SeasonCalculator
\* ------------------------------------------------------------------------
\* The rows of team_id, home or away; the code returns None on no row.
get_all_opp_matches(matches, team_id) == {m \in matches : plays(m, team_id)}

\* Points by goal comparison with a win counted twice.
points_by_goals_wins_doubled(S, team_id) ==
    LET home_games == {m \in S : m.home_team_id = team_id}
        away_games == {m \in S : m.away_team_id = team_id}
        home_wins == Cardinality({m \in home_games : m.home_goals > m.away_goals})
        away_wins == Cardinality({m \in away_games : m.away_goals > m.home_goals})
    IN  2 * (home_wins + away_wins) * WIN_POINTS

\* Points of team_id over rows S by goal comparison (the path of other teams).
points_by_goals(S, team_id) ==
    LET home_games == {m \in S : m.home_team_id = team_id}
        away_games == {m \in S : m.away_team_id = team_id}
        home_wins == Cardinality({m \in home_games : m.home_goals > m.away_goals})
        away_wins == Cardinality({m \in away_games : m.away_goals > m.home_goals})
        home_draws == Cardinality({m \in home_games : m.home_goals = m.away_goals})
        away_draws == Cardinality({m \in away_games : m.away_goals = m.home_goals})
    IN  (home_wins + away_wins) * WIN_POINTS + (home_draws + away_draws) * DRAW_POINTS

\* The points with a draw worth nothing.
points_by_real_result_draws_lost(S) ==
    Cardinality({m \in S : real_result(m) = 2}) * WIN_POINTS

\* Points of Real Madrid over rows S by the real_result column.
points_by_real_result(S) ==
    Cardinality({m \in S : real_result(m) = 2}) * WIN_POINTS
    + Cardinality({m \in S : real_result(m) = 1}) * DRAW_POINTS

\* The season window with the match date itself let in (<= for <).
season_filtered_matches_through(matches, team_id, match_date, previous_season) ==
    IF team_id # 1
    THEN {m \in get_all_opp_matches(matches, team_id) :
            m.match_date >= previous_season.start_date /\ m.match_date <= match_date}
    ELSE {m \in rm_matches(matches) :
            m.match_date >= previous_season.start_date /\ m.match_date <= match_date}

\* filtered_matches of calculate_team_points_per_match_season, for a previous
\* season that is a season record.
season_filtered_matches(matches, team_id, match_date, previous_season) ==
    IF team_id # 1
    THEN {m \in get_all_opp_matches(matches, team_id) :
            m.match_date >= previous_season.start_date /\ m.match_date < match_date}
    ELSE {m \in rm_matches(matches) :
            m.match_date >= previous_season.start_date /\ m.match_date < match_date}

\* A first-season return that is an absence marker in place of the 0.
first_season_ppm_absent == NaN

\* The value returned for a date of the first season: the int 0.
first_season_ppm == Num(0, 1)

calculate_team_points_per_match_season(matches, team_id, match_date) ==
    LET current_season == get_season(match_date)
        previous_season == get_previous_season(current_season)
        filtered_matches ==
            season_filtered_matches(matches, team_id, match_date, previous_season)
    IN  IF team_id # 1
        THEN IF get_all_opp_matches(matches, team_id) = {} THEN PyNone
             ELSE IF previous_season.kind = "True" THEN first_season_ppm
             ELSE IF previous_season.kind # "season" THEN Raised
             ELSE IF filtered_matches = {} THEN NaN
             ELSE Num(points_by_goals(filtered_matches, team_id),
                      Cardinality(filtered_matches))
        ELSE IF previous_season.kind = "True" THEN first_season_ppm
             ELSE IF previous_season.kind # "season" THEN Num(0, 1)
             ELSE IF filtered_matches = {} THEN NaN
             ELSE Num(points_by_real_result(filtered_matches),
                      Cardinality(filtered_matches))

\* The pair a tier call returns.
Pair(g, p) == [kind |-> "pair", goals |-> g, points |-> p]

\* max_ppm is <<>> for None and <<x>> for the bound x.
NoMax == <<>>

\* The first-season window start of the other teams' path, 2019-08-01.
FIRST_SEASON_TIER_START == 20190801

\* filtered_matches of calculate_team_stats_against_tier: the window before
\* the tier filter.  previous_season is PyTrue or a season record.
tier_filtered_matches(matches, team_id, match_date, previous_season) ==
    IF team_id # 1
    THEN IF previous_season.kind = "True"
         THEN {m \in get_all_opp_matches(matches, team_id) :
                 m.match_date >= FIRST_SEASON_TIER_START /\ m.match_date < match_date}
         ELSE {m \in get_all_opp_matches(matches, team_id) :
                 m.match_date < match_date /\ m.match_date >= previous_season.start_date}
    ELSE {m \in rm_matches(matches) :
            m.match_date < match_date /\ m.match_date > previous_season.start_date}

\* tier_matches of calculate_team_stats_against_tier: the rows of the window
\* that pass the PPM filter.
tier_matches(filtered_matches, team_id, min_ppm, max_ppm) ==
    IF team_id # 1
    THEN IF max_ppm = NoMax
         THEN {m \in filtered_matches :
                 \/ m.home_team_id = team_id /\ m.PPM_A > min_ppm
                 \/ m.away_team_id = team_id /\ m.PPM_H > min_ppm}
         ELSE {m \in filtered_matches :
                 \/ m.home_team_id = team_id /\ m.PPM_A >= min_ppm /\ m.PPM_A <= max_ppm[1]
                 \/ m.away_team_id = team_id /\ m.PPM_H >= min_ppm /\ m.PPM_H <= max_ppm[1]}
    ELSE IF max_ppm = NoMax
         THEN {m \in filtered_matches : m.PPM_H > min_ppm \/ m.PPM_A > min_ppm}
         ELSE {m \in filtered_matches :
                 \/ m.PPM_H >= min_ppm /\ m.PPM_H <= max_ppm[1]
                 \/ m.PPM_A >= min_ppm /\ m.PPM_A <= max_ppm[1]}

calculate_team_stats_against_tier(matches, team_id, match_date, min_ppm, max_ppm) ==
    LET current_season == get_season(match_date)
        previous_season == get_previous_season(current_season)
        filtered_matches ==
            tier_filtered_matches(matches, team_id, match_date, previous_season)
        tier == tier_matches(filtered_matches, team_id, min_ppm, max_ppm)
        home_games == {m \in tier : m.home_team_id = team_id}
        away_games == {m \in tier : m.away_team_id = team_id}
        goals_scored ==
            SumOf([m \in home_games |-> m.home_goals], home_games)
            + SumOf([m \in away_games |-> m.away_goals], away_games)
    IN  IF team_id # 1
        THEN IF get_all_opp_matches(matches, team_id) = {} THEN Pair(PyFalse, PyFalse)
             ELSE IF previous_season.kind \notin {"True", "season"} THEN Raised
             ELSE IF tier = {} THEN Pair(NaN, NaN)
             ELSE Pair(Num(goals_scored, Cardinality(tier)),
                       Num(points_by_goals(tier, team_id), Cardinality(tier)))
        ELSE IF previous_season.kind = "True" THEN Pair(PyFalse, PyFalse)
             ELSE IF previous_season.kind # "season" THEN Pair(PyFalse, PyFalse)
             ELSE IF tier = {} THEN Pair(NaN, NaN)
             ELSE Pair(Num(SumOf([m \in tier |-> goals(m)], tier), Cardinality(tier)),
                       Num(points_by_real_result(tier), Cardinality(tier)))

\* The rows a call filters before it averages or applies the tier filter; a
\* call that returns before it filters has no window.
Window(rows) == [kind |-> "window", rows |-> rows]

\* The window of calculate_team_points_per_match_season.
season_ppm_window(matches, team_id, match_date) ==
    LET previous_season == get_previous_season(get_season(match_date))
    IN  IF team_id # 1 /\ get_all_opp_matches(matches, team_id) = {} THEN PyNone
        ELSE IF previous_season.kind # "season" THEN PyNone
        ELSE Window(season_filtered_matches(matches, team_id, match_date,
                                            previous_season))

\* The window of calculate_team_stats_against_tier.
tier_window(matches, team_id, match_date) ==
    LET previous_season == get_previous_season(get_season(match_date))
    IN  IF team_id # 1 /\ get_all_opp_matches(matches, team_id) = {} THEN PyNone
        ELSE IF previous_season.kind = "season" \/ (team_id # 1 /\ previous_season.kind = "True")
             THEN Window(tier_filtered_matches(matches, team_id, match_date,
                                               previous_season))
        ELSE PyNone

Tiers == {"TOP", "MID", "LOW"}

\* The (min_ppm, max_ppm) arguments of the TOP, MID and LOW wrappers.
tier_min_ppm(tier) ==
    CASE tier = "TOP" -> TOP_TIER_MIN_PPM
      [] tier = "MID" -> MID_TIER_MIN_PPM
      [] tier = "LOW" -> 0

tier_max_ppm(tier) ==
    CASE tier = "TOP" -> NoMax
      [] tier = "MID" -> <<MID_TIER_MAX_PPM>>
      [] tier = "LOW" -> <<LOW_TIER_MAX_PPM>>

\* calculate_team_goals_against_<tier> and calculate_team_points_against_<tier>.
calculate_team_stats_against(matches, team_id, match_date, tier) ==
    calculate_team_stats_against_tier(matches, team_id, match_date,
                                      tier_min_ppm(tier), tier_max_ppm(tier))

\* ------------------------------------------------------------------------
\* StatsCalculator: last-N form
\* ------------------------------------------------------------------------
RECURSIVE sort_values_asc(_)
\* The rows of S as a sequence, oldest match_date first.
sort_values_asc(S) ==
    IF S = {} THEN <<>>
    ELSE LET m == CHOOSE x \in S : \A y \in S : x.match_date <= y.match_date
         IN  <<m>> \o sort_values_asc(S \ {m})

RECURSIVE sort_values_desc(_)
\* sort_values('match_date', ascending=False): most recent match_date first.
sort_values_desc(S) ==
    IF S = {} THEN <<>>
    ELSE LET m == CHOOSE x \in S : \A y \in S : x.match_date >= y.match_date
         IN  <<m>> \o sort_values_desc(S \ {m})

\* DataFrame.head(n): the first n rows, all of them when there are fewer.
head(rows, n) == SubSeq(rows, 1, IF n < Len(rows) THEN n ELSE Len(rows))

RowsOf(rows) == {rows[i] : i \in DOMAIN rows}

\* The dict of the five Real Madrid averages over the rows of last_matches.
rm_last_5_dict(last_matches) ==
    LET S == RowsOf(last_matches)
        matches_count == Len(last_matches)
        rm_home == {m \in S : m.home_team_id = 1}
        rm_away == {m \in S : m.away_team_id = 1}
        rm_goals == SumOf([m \in S |-> goals(m)], S)
        rm_conceded_goals ==
            SumOf([m \in rm_home |-> m.away_goals], rm_home)
            + SumOf([m \in rm_away |-> m.home_goals], rm_away)
        rm_difference == rm_goals - rm_conceded_goals
        rm_points == points_by_real_result(S)
        rm_opp_ppm ==
            SumOf([m \in rm_home |-> m.PPM_A], rm_home)
            + SumOf([m \in rm_away |-> m.PPM_H], rm_away)
    IN  [kind |-> "dict",
         G_SCO_L5 |-> Num(rm_goals, matches_count),
         G_CON_L5 |-> Num(rm_conceded_goals, matches_count),
         GDIF_L5 |-> Num(rm_difference, matches_count),
         PPM_L5 |-> Num(rm_points, matches_count),
         OPP_PPM_L5 |-> Num(rm_opp_ppm, matches_count * 10)]

\* A dict of zeros: what a zero fill of the five averages would return.
zeros_last_5_dict ==
    [kind |-> "dict", G_SCO_L5 |-> Num(0, 1), G_CON_L5 |-> Num(0, 1),
     GDIF_L5 |-> Num(0, 1), PPM_L5 |-> Num(0, 1), OPP_PPM_L5 |-> Num(0, 1)]

\* The Real Madrid path with a dict of zeros on no match, else unchanged.
calculate_real_madrid_last_5_zeros(matches, match_date, matches_count) ==
    LET filtered_matches == {m \in rm_matches(matches) : m.match_date < match_date}
        last_matches == head(sort_values_desc(filtered_matches), matches_count)
    IN  IF Len(last_matches) = 0 THEN zeros_last_5_dict
        ELSE rm_last_5_dict(last_matches)

\* The rows of the model hold no missing value, so check_NaN_column_in_RM_matches
\* finds none and the NaN returns of the two paths are not taken.
calculate_real_madrid_last_5(matches, match_date, matches_count) ==
    LET filtered_matches == {m \in rm_matches(matches) : m.match_date < match_date}
        sorted_matches == sort_values_desc(filtered_matches)
        last_matches == head(sorted_matches, matches_count)
    IN  IF Len(last_matches) = 0 THEN PyFalse
        ELSE rm_last_5_dict(last_matches)

calculate_opponent_last_5(matches, match_date, team_id, matches_count) ==
    LET filtered_matches ==
            {m \in matches :
                /\ m.match_date < match_date
                /\ (m.home_team_id = team_id \/ m.away_team_id = team_id)}
        sorted_matches == sort_values_desc(filtered_matches)
        last_matches == head(sorted_matches, matches_count)
        S == RowsOf(last_matches)
        count == Len(last_matches)
        as_home == {m \in S : m.home_team_id = team_id}
        as_away == {m \in S : m.away_team_id = team_id}
        opp_goals ==
            SumOf([m \in as_home |-> m.home_goals], as_home)
            + SumOf([m \in as_away |-> m.away_goals], as_away)
        opp_conceded_goals ==
            SumOf([m \in as_home |-> m.away_goals], as_home)
            + SumOf([m \in as_away |-> m.home_goals], as_away)
        opp_difference == opp_goals - opp_conceded_goals
        home_wins == Cardinality({m \in as_home : m.home_goals > m.away_goals})
        away_wins == Cardinality({m \in as_away : m.away_goals > m.home_goals})
        draws == Cardinality({m \in S : m.home_goals = m.away_goals})
        opp_points == (home_wins + away_wins) * WIN_POINTS + draws * DRAW_POINTS
        point_per_match_of_rivalas_rival ==
            SumOf([m \in as_home |-> m.PPM_A], as_home)
            + SumOf([m \in as_away |-> m.PPM_H], as_away)
    IN  IF Len(last_matches) = 0 THEN NaN
        ELSE [kind |-> "dict",
              G_SCO_L5 |-> Num(opp_goals, count),
              G_CON_L5 |-> Num(opp_conceded_goals, count),
              GDIF_L5 |-> Num(opp_difference, count),
              PPM_L5 |-> Num(opp_points, count),
              OPP_PPM_L5 |-> Num(point_per_match_of_rivalas_rival, count * 10)]

calculate_last_5_stats(matches, match_date, team_id, matches_count) ==
    IF team_id = 1
    THEN calculate_real_madrid_last_5(matches, match_date, matches_count)
    ELSE calculate_opponent_last_5(matches, match_date, team_id, matches_count)

\* ------------------------------------------------------------------------
\* Head-to-head calculator (over the Real Madrid rows)
\* ------------------------------------------------------------------------
\* get_h2h_matches with the rows in no date order at all: oldest first.
get_h2h_matches_oldest(df, opp_id, match_date, last_n) ==
    LET h2h_matches ==
            {m \in df :
                /\ m.match_date < match_date
                /\ \/ (m.home_team_id = REAL_MADRID_ID /\ m.away_team_id = opp_id)
                   \/ (m.home_team_id = opp_id /\ m.away_team_id = REAL_MADRID_ID)}
    IN  IF h2h_matches = {} THEN PyNone
        ELSE [kind |-> "frame",
              rows |-> IF last_n # 0 THEN head(sort_values_asc(h2h_matches), last_n)
                       ELSE sort_values_asc(h2h_matches)]

\* last_n is 0 for None: `if last_n:` takes None and 0 alike.  The frame holds
\* every required column, so validate_h2h_dataframe passes.
get_h2h_matches(df, opp_id, match_date, last_n) ==
    LET h2h_matches ==
            {m \in df :
                /\ m.match_date < match_date
                /\ \/ (m.home_team_id = REAL_MADRID_ID /\ m.away_team_id = opp_id)
                   \/ (m.home_team_id = opp_id /\ m.away_team_id = REAL_MADRID_ID)}
        sorted == sort_values_desc(h2h_matches)
    IN  IF h2h_matches = {} THEN PyNone
        ELSE [kind |-> "frame",
              rows |-> IF last_n # 0 THEN head(sorted, last_n) ELSE sorted]

\* The summary with a drawn meeting counted as a win of Real Madrid.
calculate_h2h_stats_draws_won(df, opp_id, match_date, last_n) ==
    LET h2h_matches == get_h2h_matches(df, opp_id, match_date, last_n)
        S == RowsOf(h2h_matches.rows)
        total_wins == Cardinality({m \in S : points_by_goals({m}, REAL_MADRID_ID) >= 1})
        draws == Cardinality({m \in S : m.home_goals = m.away_goals})
    IN  IF h2h_matches = PyNone THEN PyNone
        ELSE [kind |-> "dict",
              win_ratio |-> Num(total_wins, Len(h2h_matches.rows)),
              points_per_match |->
                  Num(total_wins * WIN_POINTS + draws * DRAW_POINTS, Len(h2h_matches.rows)),
              goals_balance |-> 0]

\* The summary with the points of the window in the place of its wins.
calculate_h2h_stats_points_for_wins(df, opp_id, match_date, last_n) ==
    LET h2h_matches == get_h2h_matches(df, opp_id, match_date, last_n)
        S == RowsOf(h2h_matches.rows)
        points == points_by_goals(S, REAL_MADRID_ID)
    IN  IF h2h_matches = PyNone THEN PyNone
        ELSE [kind |-> "dict",
              win_ratio |-> Num(points, Len(h2h_matches.rows)),
              points_per_match |-> Num(points, Len(h2h_matches.rows)),
              goals_balance |-> 0]

calculate_h2h_stats(df, opp_id, match_date, last_n) ==
    LET h2h_matches == get_h2h_matches(df, opp_id, match_date, last_n)
        S == RowsOf(h2h_matches.rows)
        rm_home == {m \in S : m.home_team_id = REAL_MADRID_ID}
        rm_away == {m \in S : m.away_team_id = REAL_MADRID_ID}
        rm_home_wins == Cardinality({m \in rm_home : m.home_goals > m.away_goals})
        rm_away_wins == Cardinality({m \in rm_away : m.away_goals > m.home_goals})
        draws == Cardinality({m \in S : m.home_goals = m.away_goals})
        total_matches == Len(h2h_matches.rows)
        total_wins == rm_home_wins + rm_away_wins
        rm_goals ==
            SumOf([m \in rm_home |-> m.home_goals], rm_home)
            + SumOf([m \in rm_away |-> m.away_goals], rm_away)
        opp_goals ==
            SumOf([m \in rm_home |-> m.away_goals], rm_home)
            + SumOf([m \in rm_away |-> m.home_goals], rm_away)
    IN  IF h2h_matches = PyNone \/ Len(h2h_matches.rows) = 0 THEN PyNone
        ELSE [kind |-> "dict",
              win_ratio |-> Num(total_wins, total_matches),
              points_per_match |->
                  Num(total_wins * WIN_POINTS + draws * DRAW_POINTS, total_matches),
              goals_balance |-> rm_goals - opp_goals]

\* The overall PPM with the wins only, the draws earning nothing.
calculate_h2h_overall_ppm_wins_only(df, opp_id, match_date) ==
    LET h2h_matches == get_h2h_matches(df, opp_id, match_date, 0)
        S == RowsOf(h2h_matches.rows)
        total_wins == Cardinality({m \in S : points_by_goals({m}, REAL_MADRID_ID) = WIN_POINTS})
    IN  IF h2h_matches = PyNone THEN PyNone
        ELSE Num(total_wins * WIN_POINTS, Len(h2h_matches.rows))

calculate_h2h_overall_ppm(df, opp_id, match_date) ==
    LET h2h_matches == get_h2h_matches(df, opp_id, match_date, 0)
        S == RowsOf(h2h_matches.rows)
        rm_home_wins ==
            Cardinality({m \in S : m.home_team_id = REAL_MADRID_ID
                                      /\ m.home_goals > m.away_goals})
        rm_away_wins ==
            Cardinality({m \in S : m.away_team_id = REAL_MADRID_ID
                                      /\ m.away_goals > m.home_goals})
        draws == Cardinality({m \in S : m.home_goals = m.away_goals})
        total_matches == Len(h2h_matches.rows)
        total_wins == rm_home_wins + rm_away_wins
    IN  IF h2h_matches = PyNone \/ Len(h2h_matches.rows) = 0 THEN PyNone
        ELSE Num(total_wins * WIN_POINTS + draws * DRAW_POINTS, total_matches)

\* is_playing_before answering True whatever the table holds.
is_playing_before_always(df, match_date, team_id) == PyTrue

is_playing_before(df, match_date, team_id) ==
    LET h2h_matches == get_h2h_matches(df, team_id, match_date, 0)
    IN  IF h2h_matches = PyNone \/ Len(h2h_matches.rows) = 0 THEN PyFalse ELSE PyTrue

\* ------------------------------------------------------------------------
\* Analyzers: the last-5 columns written for a match
\* ------------------------------------------------------------------------
L5Keys == {"G_SCO_L5", "G_CON_L5", "GDIF_L5", "PPM_L5", "OPP_PPM_L5"}

\* The analyzers' window of last matches.
LAST_N == 5

\* Python truth of a returned value: None and False are false, a dict with
\* keys and nan are true, a number is true unless it is zero.
truthy(v) ==
    CASE v.kind \in {"None", "False"} -> FALSE
      [] v.kind = "num" -> v.n # 0
      [] OTHER -> TRUE

\* round(value, 3) of a quotient: the nearest multiple of 1/1000.
round3(v) == Num((2000 * v.n + v.d) \div (2 * v.d), 1000)

\* RealMadridTeamAnalyzer.calculate_match_statistics, the last-5 columns of the
\* row of a match: a value that is true and no dict raises on .items(), and
\* the handler of the loop writes NaN into every column.
rm_last_5_columns(matches, match_date) ==
    LET last_5_stats == calculate_last_5_stats(matches, match_date, 1, LAST_N)
    IN  IF truthy(last_5_stats)
        THEN IF last_5_stats.kind = "dict"
             THEN [k \in L5Keys |-> round3(last_5_stats[k])]
             ELSE [k \in L5Keys |-> NaN]
        ELSE [k \in L5Keys |-> NaN]

\* calculate_OP_<key>: the value of one key, nan on a false result; subscripting
\* a result that is true and no dict raises.
calculate_OP_L5(matches, match_date, team_id, key) ==
    LET res == calculate_opponent_last_5(matches, match_date, team_id, LAST_N)
    IN  IF truthy(res)
        THEN IF res.kind = "dict" THEN res[key] ELSE Raised
        ELSE NaN

\* OpponentAnalyzer.calculate_opponent_statistics, the last-5 columns of the
\* row of a match: numbers are rounded; when a wrapper raises, the handler of
\* the loop writes NaN into every column.
opp_last_5_columns(matches, match_date, opponent_id) ==
    LET vals == [k \in L5Keys |-> calculate_OP_L5(matches, match_date, opponent_id, k)]
    IN  IF \E k \in L5Keys : vals[k] = Raised
        THEN [k \in L5Keys |-> NaN]
        ELSE [k \in L5Keys |-> IF IsNum(vals[k]) THEN round3(vals[k]) ELSE vals[k]]

\* H2HAnalyzer.calculate_match_h2h_stats without the odds column: the values
\* of the summary are rounded, H2H_EXISTS is the integer 1 or 0.
calculate_match_h2h_stats(rm_rows, match_date, opponent_id) ==
    LET last_5_stats == calculate_h2h_stats(rm_rows, opponent_id, match_date, 5)
        overall_ppm == calculate_h2h_overall_ppm(rm_rows, opponent_id, match_date)
        h2h_exists == is_playing_before(rm_rows, match_date, opponent_id)
    IN  [H2H_RM_W_L5 |->
            IF last_5_stats # PyNone THEN round3(last_5_stats.win_ratio) ELSE NaN,
         H2H_RM_GDIF_L5 |->
            IF last_5_stats # PyNone THEN last_5_stats.goals_balance ELSE NaN,
         H2H_PPM_L5 |->
            IF last_5_stats # PyNone THEN round3(last_5_stats.points_per_match) ELSE NaN,
         H2H_PPM |-> IF overall_ppm # PyNone THEN round3(overall_ppm) ELSE NaN,
         H2H_EXISTS |-> IF h2h_exists = PyTrue THEN 1 ELSE 0]

\* ------------------------------------------------------------------------
\* The rolling-form, season-aggregate and head-to-head features of one match
\* ------------------------------------------------------------------------
\* What the three per-match loops compute for the match of Real Madrid against
\* opponent_id on match_date, before rounding and imputation.
match_features(matches, opponent_id, match_date) ==
    [RM_L5 |-> calculate_last_5_stats(matches, match_date, 1, LAST_N),
     RM_PPM_SEA |-> calculate_team_points_per_match_season(matches, 1, match_date),
     RM_VS |-> [t \in Tiers |-> calculate_team_stats_against(matches, 1, match_date, t)],
     OP_L5 |-> calculate_opponent_last_5(matches, match_date, opponent_id, LAST_N),
     OP_PPM_SEA |->
         calculate_team_points_per_match_season(matches, opponent_id, match_date),
     OP_VS |-> [t \in Tiers |->
                  calculate_team_stats_against(matches, opponent_id, match_date, t)],
     H2H_L5 |-> calculate_h2h_stats(rm_matches(matches), opponent_id, match_date, LAST_N)]

\* ------------------------------------------------------------------------
\* The per-match loops of the three analyzers
\* ------------------------------------------------------------------------
RECURSIVE iterrows(_)
\* The rows of a frame in frame order, which is the order of the match dates.
iterrows(S) ==
    IF S = {} THEN <<>>
    ELSE LET m == CHOOSE x \in S : \A y \in S : x.match_date <= y.match_date
         IN  <<m>> \o iterrows(S \ {m})

\* CoachManager.get_coach_id_by_date: the coach whose term holds the date, or
\* None; the terms of coach_data do not overlap.
get_coach_id_by_date(coach_data, match_date) ==
    LET matching_coaches ==
            {c \in coach_data : c.start_date <= match_date /\ c.end_date >= match_date}
    IN  IF matching_coaches = {} THEN PyNone
        ELSE Num((CHOOSE c \in matching_coaches : TRUE).coach_id, 1)

\* round(value, 3): nan stays nan, False is the integer 0, None raises.
py_round(value) ==
    CASE value.kind = "num" -> round3(value)
      [] value.kind = "nan" -> NaN
      [] value.kind = "False" -> Num(0, 1)
      [] value.kind = "True" -> Num(1, 1)
      [] OTHER -> Raised

TeamColumns ==
    {"RM_C_ID", "RM_PPM_SEA", "RM_GPM_VS_TOP", "RM_PPM_VS_TOP", "RM_GPM_VS_MID",
     "RM_PPM_VS_MID", "RM_GPM_VS_LOW", "RM_PPM_VS_LOW",
     "RM_G_SCO_L5", "RM_G_CON_L5", "RM_GDIF_L5", "RM_PPM_L5", "RM_OPP_PPM_L5"}

OpponentColumns ==
    {"OP_PPM_SEA", "OP_GPM_VS_TOP", "OP_PPM_VS_TOP", "OP_GPM_VS_MID",
     "OP_PPM_VS_MID", "OP_GPM_VS_LOW", "OP_PPM_VS_LOW",
     "OP_G_SCO_L5", "OP_G_CON_L5", "OP_GDIF_L5", "OP_PPM_L5", "OP_OPP_PPM_L5"}

\* A dict one of whose values could not be computed is no dict: the call
\* raised.
raised_or(stats) == IF \E col \in DOMAIN stats : stats[col] = Raised THEN Raised ELSE stats

\* The except branch of a loop: NaN in the given columns, the dict as it is
\* when nothing was raised.
except_nan(stats, columns, kept) ==
    IF stats = Raised THEN [col \in columns |-> NaN] @@ kept ELSE stats

\* The match_stats dict of the team loop from the coach id, the season PPM,
\* the tier pairs and the last-5 columns (the coach ratings left out).
team_columns(coach_id, sea, vs, last_5) ==
    [col \in TeamColumns |->
        CASE col = "RM_C_ID" -> coach_id
          [] col = "RM_PPM_SEA" -> py_round(sea)
          [] col = "RM_GPM_VS_TOP" -> py_round(vs["TOP"].goals)
          [] col = "RM_PPM_VS_TOP" -> py_round(vs["TOP"].points)
          [] col = "RM_GPM_VS_MID" -> py_round(vs["MID"].goals)
          [] col = "RM_PPM_VS_MID" -> py_round(vs["MID"].points)
          [] col = "RM_GPM_VS_LOW" -> py_round(vs["LOW"].goals)
          [] col = "RM_PPM_VS_LOW" -> py_round(vs["LOW"].points)
          [] col = "RM_G_SCO_L5" -> last_5["G_SCO_L5"]
          [] col = "RM_G_CON_L5" -> last_5["G_CON_L5"]
          [] col = "RM_GDIF_L5" -> last_5["GDIF_L5"]
          [] col = "RM_PPM_L5" -> last_5["PPM_L5"]
          [] col = "RM_OPP_PPM_L5" -> last_5["OPP_PPM_L5"]]

\* The try block of the team loop: its dict, or Raised.
team_try_block(matches, match_date, coach_id) ==
    raised_or(team_columns(
        coach_id,
        calculate_team_points_per_match_season(matches, 1, match_date),
        [t \in Tiers |-> calculate_team_stats_against(matches, 1, match_date, t)],
        rm_last_5_columns(matches, match_date)))

\* The entry of a match in the team loop: the dict of the try block, or on an
\* exception NaN in every column but RM_C_ID.
team_match_stats(matches, match_date, coach_id) ==
    except_nan(team_try_block(matches, match_date, coach_id), TeamColumns \ {"RM_C_ID"},
               [col \in {"RM_C_ID"} |-> coach_id])

\* The goals or points of a tier pair as a wrapper of stats_functions passes
\* them on: nan for False; unpacking a call that raised raises.
tier_value(pair, field) ==
    IF pair = Raised THEN Raised
    ELSE IF pair[field] = PyFalse THEN NaN ELSE pair[field]

\* The match_stats dict of the opponent loop from the season PPM, the tier
\* pairs and the last-5 values (the whole-history and odds columns left out).
opponent_columns(sea, vs, l5) ==
    [col \in OpponentColumns |->
        CASE col = "OP_PPM_SEA" -> IF sea = PyNone THEN NaN ELSE sea
          [] col = "OP_GPM_VS_TOP" -> tier_value(vs["TOP"], "goals")
          [] col = "OP_PPM_VS_TOP" -> tier_value(vs["TOP"], "points")
          [] col = "OP_GPM_VS_MID" -> tier_value(vs["MID"], "goals")
          [] col = "OP_PPM_VS_MID" -> tier_value(vs["MID"], "points")
          [] col = "OP_GPM_VS_LOW" -> tier_value(vs["LOW"], "goals")
          [] col = "OP_PPM_VS_LOW" -> tier_value(vs["LOW"], "points")
          [] col = "OP_G_SCO_L5" -> l5["G_SCO_L5"]
          [] col = "OP_G_CON_L5" -> l5["G_CON_L5"]
          [] col = "OP_GDIF_L5" -> l5["GDIF_L5"]
          [] col = "OP_PPM_L5" -> l5["PPM_L5"]
          [] col = "OP_OPP_PPM_L5" -> l5["OPP_PPM_L5"]]

\* The rounding of the numbers of a dict, when there is a dict.
round_numbers(stats) ==
    IF stats = Raised THEN Raised
    ELSE [col \in DOMAIN stats |->
             IF IsNum(stats[col]) THEN round3(stats[col]) ELSE stats[col]]

\* The try block of the opponent loop: its dict, or Raised.
opponent_try_block(matches, match_date, opponent_id) ==
    round_numbers(raised_or(opponent_columns(
        calculate_team_points_per_match_season(matches, opponent_id, match_date),
        [t \in Tiers |-> calculate_team_stats_against(matches, opponent_id, match_date, t)],
        [key \in L5Keys |-> calculate_OP_L5(matches, match_date, opponent_id, key)])))

\* The handler of the opponent loop writing 0 into the columns.
opponent_match_stats_zero_filled(matches, match_date, opponent_id) ==
    except_nan(opponent_try_block(matches, match_date, opponent_id), {},
               [col \in OpponentColumns |-> Num(0, 1)])

\* The entry of a match in the opponent loop: the dict of the try block, or
\* on an exception NaN in every column.
opponent_match_stats(matches, match_date, opponent_id) ==
    except_nan(opponent_try_block(matches, match_date, opponent_id), OpponentColumns,
               <<>>)

\* The dict with the entry of match added.
with_entry(match_stats_dict, match, match_stats) ==
    [m \in DOMAIN match_stats_dict \cup {match} |->
        IF m = match THEN match_stats ELSE match_stats_dict[m]]

\* One turn of a loop on the row match: the dict after it.  The team loop
\* skips a match with no coach before its try block.
loop_turn(analyzer, matches, coach_data, match_stats_dict, match) ==
    LET match_date == match.match_date
        opponent_id == IF match.home_team_id # 1 THEN match.home_team_id
                                                ELSE match.away_team_id
        coach_id == get_coach_id_by_date(coach_data, match_date)
    IN  CASE analyzer = "team" ->
               IF coach_id = PyNone THEN match_stats_dict
               ELSE with_entry(match_stats_dict, match,
                               team_match_stats(matches, match_date, coach_id))
          [] analyzer = "opponent" ->
               with_entry(match_stats_dict, match,
                          opponent_match_stats(matches, match_date, opponent_id))
          [] analyzer = "h2h" ->
               with_entry(match_stats_dict, match,
                          calculate_match_h2h_stats(rm_matches(matches), match_date,
                                                    opponent_id))

\* ------------------------------------------------------------------------
\* DataFrameImputer (over the columns H2H_EXISTS, H2H_PPM, OP_PPM_VS_TOP,
\* OP_PPM_SEA, OP_PPM_L5 and OP_G_SCO_L5; a cell is NaN or a number, a frame a sequence of
\* rows)
\* ------------------------------------------------------------------------
ImputedColumns ==
    {"H2H_EXISTS", "H2H_PPM", "OP_PPM_VS_TOP", "OP_PPM_SEA", "OP_PPM_L5", "OP_G_SCO_L5"}

\* Series.median() over the rows I of a column: NaN cells are skipped, the
\* median of none is NaN, of an even number the mean of the middle two.
median(df, col, I) ==
    LET J == {i \in I : df[i][col] # NaN}
        k == Cardinality(J)
        Rank(i) == Cardinality({j \in J :
                       \/ df[j][col].n * df[i][col].d < df[i][col].n * df[j][col].d
                       \/ (NumEq(df[j][col], df[i][col]) /\ j < i)})
        elem(r) == df[CHOOSE i \in J : Rank(i) = r][col]
        lo == elem(k \div 2 - 1)
        hi == elem(k \div 2)
    IN  IF k = 0 THEN NaN
        ELSE IF k % 2 = 1 THEN elem((k - 1) \div 2)
        ELSE Num(lo.n * hi.d + hi.n * lo.d, 2 * lo.d * hi.d)

\* df[col].fillna(value) for one column, value a series indexed as df.
fillna(df, col, value) ==
    [i \in DOMAIN df |->
        IF df[i][col] = NaN THEN [df[i] EXCEPT ![col] = value[i]] ELSE df[i]]

\* The frame holds no RM_PX_ column: nothing to fill.
impute_player_stats(df) == df

\* The fill made in every row, whatever H2H_EXISTS holds.
impute_h2h_stats_every_row(df) ==
    [i \in DOMAIN df |->
        IF df[i].H2H_PPM = NaN THEN [df[i] EXCEPT !.H2H_PPM = Num(0, 1)] ELSE df[i]]

\* Rows with H2H_EXISTS == 0 get 0 in the empty cells of the H2H_ columns.
impute_h2h_stats(df) ==
    [i \in DOMAIN df |->
        IF df[i].H2H_EXISTS # NaN /\ df[i].H2H_EXISTS.n = 0 /\ df[i].H2H_PPM = NaN
        THEN [df[i] EXCEPT !.H2H_PPM = Num(0, 1)]
        ELSE df[i]]

\* The columns OP_..._L5 of the frame.
l5_cols == {"OP_PPM_L5", "OP_G_SCO_L5"}

\* The value written into an OP_ _L5 column: its median over the rows with
\* OP_PPM_SEA < 1.2, or over all rows when there is no such row; the median
\* over all rows when that one is NaN.
l5_fill(df, col, low_teams_mask) ==
    LET median_for_low_teams ==
            IF low_teams_mask # {} THEN median(df, col, low_teams_mask)
            ELSE median(df, col, DOMAIN df)
        global_median == median(df, col, DOMAIN df)
    IN  IF median_for_low_teams # NaN THEN median_for_low_teams ELSE global_median

\* The VS column is filled from OP_PPM_SEA; in the rows with no OP_PPM_L5
\* every OP_ _L5 column is set to the fill value of the column.
impute_opponent_stats(df) ==
    LET vs_filled == fillna(df, "OP_PPM_VS_TOP", [i \in DOMAIN df |-> df[i].OP_PPM_SEA])
        mask_beniaminek_l5 == {i \in DOMAIN df : vs_filled[i].OP_PPM_L5 = NaN}
        low_teams_mask ==
            {i \in DOMAIN df :
                /\ vs_filled[i].OP_PPM_SEA # NaN
                /\ vs_filled[i].OP_PPM_SEA.n * 10
                      < LOW_TIER_MAX_PPM * vs_filled[i].OP_PPM_SEA.d}
        fill == [col \in l5_cols |-> l5_fill(vs_filled, col, low_teams_mask)]
    IN  IF mask_beniaminek_l5 = {} THEN vs_filled
        ELSE [i \in DOMAIN df |->
                 IF i \in mask_beniaminek_l5
                 THEN [col \in ImputedColumns |->
                          IF col \in l5_cols THEN fill[col] ELSE vs_filled[i][col]]
                 ELSE vs_filled[i]]

\* Every column with an empty cell is filled with its median; the columns are
\* numeric.
impute_remaining(df) ==
    [i \in DOMAIN df |->
        [col \in ImputedColumns |->
            IF df[i][col] = NaN THEN median(df, col, DOMAIN df) ELSE df[i][col]]]

\* DataFrameImputer.run
run(df) ==
    impute_remaining(impute_opponent_stats(impute_h2h_stats(impute_player_stats(df))))

\* ------------------------------------------------------------------------
\* StatsCalculator: coach rating of the previous season (rows of Real Madrid
\* with the column RM_COACH_RATING, NaNCell when there is no rating)
\* ------------------------------------------------------------------------
\* The mean of the ratings of the rows, NaN when no row has a rating.
coach_rating_mean(season_matches) ==
    LET valid_matches == {m \in season_matches : ~isna(m.RM_COACH_RATING)}
    IN  IF valid_matches = {} THEN NaN
        ELSE Num(SumOf([m \in valid_matches |-> m.RM_COACH_RATING], valid_matches),
                 Cardinality(valid_matches))

calculate_coach_rating_last_season(rm_rows, coach_id, match_date) ==
    LET current_season == get_season(match_date)
        previous_season == get_previous_season(current_season)
    IN  IF previous_season.kind = "True"
        THEN coach_rating_mean({m \in rm_rows :
                                  /\ m.match_date >= SEASON_DATES[1][1]
                                  /\ m.match_date <= SEASON_DATES[1][2]})
        ELSE IF previous_season.kind # "season" THEN NaN
        ELSE coach_rating_mean({m \in rm_rows :
                                  /\ m.match_date > previous_season.start_date
                                  /\ m.match_date < previous_season.end_date})

\* ------------------------------------------------------------------------
\* DataAggregator.process_all_matches (the match columns of a row; the player
\* columns left out)
\* ------------------------------------------------------------------------
\* The match_data dict of a match: subscripting the None that
\* get_season_for_date returns for a date in no season raises.
match_data(match) ==
    LET season == get_season(match.match_date)
    IN  IF season = PyNone THEN Raised
        ELSE [MATCH_ID |-> match,
              M_DATE |-> match.match_date,
              SEASON |-> season.name,
              IS_HOME |-> IF match.home_team_id = 1 THEN 1 ELSE 0,
              OPP_ID |-> IF match.home_team_id = 1 THEN match.away_team_id
                                                   ELSE match.home_team_id]

RECURSIVE aggregate_rows(_, _)
\* The turns of the loop over processing_matches: a match without players
\* data is skipped, every other match gives its match_data, or raises.
aggregate_rows(rows, match_players_dict) ==
    IF rows = <<>> THEN <<>>
    ELSE IF Head(rows) \notin match_players_dict
         THEN aggregate_rows(Tail(rows), match_players_dict)
    ELSE <<match_data(Head(rows))>> \o aggregate_rows(Tail(rows), match_players_dict)

\* process_all_matches: the matches after the start of the second season in
\* frame order; when a turn raises, the loop is left and the handler of the
\* method returns a frame with no row.
process_all_matches(matches, match_players_dict) ==
    LET processing_matches == {m \in matches : m.match_date > SEASON_DATES[2][1]}
        all_matches_data == aggregate_rows(iterrows(processing_matches),
                                           match_players_dict)
    IN  IF \E i \in DOMAIN all_matches_data : all_matches_data[i] = Raised
        THEN <<>>
        ELSE all_matches_data

\* ------------------------------------------------------------------------
\* SeasonPPMCalculator (rows of one season file: round, match_date, the two
\* team ids and the goals, which are NaNCell when the result is not known)
\* ------------------------------------------------------------------------
RECURSIVE ppm_sort_values(_)
\* data_frame.sort_values(by = ['round', 'match_date']) as a sequence.
ppm_sort_values(S) ==
    IF S = {} THEN <<>>
    ELSE LET r == CHOOSE x \in S : \A y \in S :
                      \/ x.round < y.round
                      \/ (x.round = y.round /\ x.match_date <= y.match_date)
         IN  <<r>> \o ppm_sort_values(S \ {r})

\* team_points after a row: unchanged when a goals cell is NaN, else 3 for
\* the winner and 1 for each side of a draw.
team_points_after(team_points, match_row) ==
    LET home == match_row.home_team_id
        away == match_row.away_team_id
    IN  IF isna(match_row.home_goals) \/ isna(match_row.away_goals) THEN team_points
        ELSE IF match_row.home_goals > match_row.away_goals
             THEN [team_points EXCEPT ![home] = @ + 3]
        ELSE IF match_row.home_goals < match_row.away_goals
             THEN [team_points EXCEPT ![away] = @ + 3]
        ELSE [team_points EXCEPT ![home] = @ + 1, ![away] = @ + 1]

\* The value appended to ppm_home_team or ppm_away_team.
ppm_before(points, matches) ==
    IF matches > 0 THEN round3(Num(points, matches)) ELSE Num(0, 1)

RECURSIVE ppm_rows(_, _, _)
\* The loop of calculate_ppm over the sorted rows: each row with the PPM_H and
\* PPM_A appended for it; the dicts are read with a default of 0.
ppm_rows(rows, team_points, team_matches_played) ==
    IF rows = <<>> THEN <<>>
    ELSE LET match_row == Head(rows)
             home == match_row.home_team_id
             away == match_row.away_team_id
         IN  <<[row |-> match_row,
                PPM_H |-> ppm_before(team_points[home], team_matches_played[home]),
                PPM_A |-> ppm_before(team_points[away], team_matches_played[away])]>>
             \o ppm_rows(Tail(rows),
                         team_points_after(team_points, match_row),
                         [team_matches_played EXCEPT ![home] = @ + 1, ![away] = @ + 1])

\* SeasonPPMCalculator.calculate_ppm on the rows of a season file.
calculate_ppm(data_frame) ==
    ppm_rows(ppm_sort_values(data_frame), [t \in 1..3 |-> 0], [t \in 1..3 |-> 0])

\* ------------------------------------------------------------------------
\* Bounds and input sets
\* ------------------------------------------------------------------------
MaxMatches == 3

MaxTierMatches == 2

MaxGoals == 1

Goals == 0..MaxGoals

\* Rows over the given dates, teams and (PPM_H, PPM_A) pairs.
Rows(dates, teams, ppm_pairs) ==
    {Row(d, h, a, hg, ag, p[1], p[2]) :
        d \in dates, h \in teams, a \in teams, hg \in Goals, ag \in Goals,
        p \in ppm_pairs}

\* Match dates in seasons 2019-2020, 2020-2021 and 2021-2022.
SeasonMatchDates == {20191001, 20201001, 20210901}

\* Query dates: first season, between two seasons, second and third season.
SeasonQueryDates == {20191101, 20200801, 20201101, 20211001}

SeasonRows == Rows(SeasonMatchDates, {1, 2}, {<<15, 15>>})

TierMatchDates == {20201001, 20210901}

TierQueryDates == {20191101, 20200801, 20211001}

TierPPMValues == {12, 19, 20}

TierRows == Rows(TierMatchDates, {1, 2}, TierPPMValues \X TierPPMValues)

MaxLastN == 2

\* Three match dates of one season; the query dates are the second match date
\* (one match before it, one on it) and a date after all three.
FormMatchDates == {20201001, 20201101, 20201201}

FormQueryDates == {20201101, 20210101}

FormRows ==
    {m \in Rows(FormMatchDates, {1, 2, 3}, {<<10, 20>>}) :
        <<m.home_team_id, m.away_team_id>> \in {<<1, 2>>, <<2, 1>>, <<2, 3>>}}

\* Real Madrid (1) against team 2 on 2021-01-01 (3-0), 2021-06-01 (1-1) and
\* 2022-01-01 (team 2 at home, 2-1).
ExampleMeetings ==
    {Row(20210101, 1, 2, 3, 0, 15, 15),
     Row(20210601, 2, 1, 1, 1, 15, 15),
     Row(20220101, 2, 1, 2, 1, 15, 15)}

H2HMatchDates == {20210101, 20210601, 20220101}

H2HQueryDates == {20210601, 20220201}

H2HRows ==
    {m \in Rows(H2HMatchDates, {1, 2, 3}, {<<15, 15>>}) :
        <<m.home_team_id, m.away_team_id>> \in {<<1, 2>>, <<2, 1>>, <<1, 3>>}}

\* Match dates in seasons 2019-2020 and 2020-2021.  Team 2 meets Real Madrid
\* or team 3.
RowMatchDates == {20191001, 20201001, 20201201}

RowTable ==
    {m \in Rows(RowMatchDates, {1, 2, 3}, {<<12, 20>>}) :
        <<m.home_team_id, m.away_team_id>> \in {<<1, 2>>, <<2, 1>>, <<2, 3>>}}

\* The first day of every month of 2019 to 2025 and, of every season, its
\* start and end dates with the day before and the day after.
CalendarDates ==
    {y * 10000 + mo * 100 + 1 : y \in 2019..2025, mo \in 1..12}
    \cup UNION {{SEASON_DATES[i][1] - 1, SEASON_DATES[i][1], SEASON_DATES[i][1] + 1,
                 SEASON_DATES[i][2] - 1, SEASON_DATES[i][2], SEASON_DATES[i][2] + 1} :
                i \in DOMAIN SEASON_DATES}

\* A season dict whose name is not in the list.
UnknownSeason ==
    [kind |-> "season", name |-> "2018-2019", start_date |-> 20180817,
     end_date |-> 20190519]

SeasonInputs == {seasons[i] : i \in DOMAIN seasons} \cup {PyNone, UnknownSeason}

MaxImputeRows == 2

\* Rows of the final frame: H2H_EXISTS is 0, 1 or empty, the PPM cells are
\* 1.0, 2.0 or empty.
ImputeRows ==
    [H2H_EXISTS : {NaN, Num(0, 1), Num(1, 1)},
     H2H_PPM : {NaN, Num(20, 10)},
     OP_PPM_VS_TOP : {NaN, Num(20, 10)},
     OP_PPM_SEA : {NaN, Num(10, 10), Num(20, 10)},
     OP_PPM_L5 : {NaN, Num(20, 10)},
     OP_G_SCO_L5 : {NaN, Num(1, 1), Num(3, 1)}]

ImputeFrames == UNION {[1..n -> ImputeRows] : n \in 1..MaxImputeRows}

\* Frames for the H2H step: the H2H cells and OP_PPM_SEA vary, an H2H_PPM of
\* 0.0 is a real value.
H2HFrameRows ==
    [H2H_EXISTS : {NaN, Num(0, 1), Num(1, 1)},
     H2H_PPM : {NaN, Num(0, 1), Num(20, 10)},
     OP_PPM_VS_TOP : {NaN},
     OP_PPM_SEA : {NaN, Num(10, 10), Num(20, 10)},
     OP_PPM_L5 : {Num(20, 10)},
     OP_G_SCO_L5 : {Num(1, 1)}]

H2HFrames == UNION {[1..n -> H2HFrameRows] : n \in 1..MaxImputeRows}

\* The tables the loops run on: team 2 meets Real Madrid or team 3.
LoopRows ==
    {m \in Rows(RowMatchDates, {1, 2, 3}, {<<12, 20>>}) :
        <<m.home_team_id, m.away_team_id>> \in {<<1, 2>>, <<2, 1>>, <<2, 3>>}}

\* Coach tables: no coach, one for every date, two terms with the match date
\* 2020-10-01 in the gap between them.
CoachTables ==
    {{},
     {[coach_id |-> 1, start_date |-> 20190701, end_date |-> 20250630]},
     {[coach_id |-> 1, start_date |-> 20190701, end_date |-> 20200630],
      [coach_id |-> 2, start_date |-> 20201101, end_date |-> 20250630]}}

Analyzers == {"team", "opponent", "h2h"}

\* Ratings in whole points.
CoachRatings == {6, 8}

\* Three dates of the first season and one of the second.
CoachMatchDates == {20190901, 20191001, 20200301, 20201001}

\* Rows of Real Madrid with the coach's rating of the match, or none.
CoachRows ==
    {[match_date |-> d, home_team_id |-> p[1], away_team_id |-> p[2],
      RM_COACH_RATING |-> r] :
        d \in CoachMatchDates, p \in {<<1, 2>>, <<2, 1>>},
        r \in CoachRatings \cup {NaNCell}}

\* A date of the first season, the start date of the season 2020-2021 and a
\* later date of it.
WindowMatchDates == {20191001, SEASON_DATES[2][1], 20201001}

\* Query dates in the first season and in the season 2021-2022.
WindowQueryDates == {20191101, 20211001}

WindowRows == Rows(WindowMatchDates, {1, 2}, {<<15, 15>>})

\* The start date of the season 2020-2021, a date in it, a date between the
\* seasons 2020-2021 and 2021-2022, and a date in 2021-2022.
AggregateMatchDates == {SEASON_DATES[2][1], 20201001, 20210701, 20211001}

\* Rows of Real Madrid against team 2.
AggregateRows ==
    {[match_date |-> d, home_team_id |-> p[1], away_team_id |-> p[2]] :
        d \in AggregateMatchDates, p \in {<<1, 2>>, <<2, 1>>}}

MaxSeasonRows == 3

MaxRound == 2

\* Rows of the season file 2020-2021: a round, a date, the result known or
\* not; team 2 meets Real Madrid or team 3.
SeasonFileRows ==
    {[round |-> r, match_date |-> d, home_team_id |-> p[1], away_team_id |-> p[2],
      home_goals |-> g[1], away_goals |-> g[2]] :
        r \in 1..MaxRound, d \in FormMatchDates,
        p \in {<<1, 2>>, <<2, 1>>, <<2, 3>>},
        g \in (Goals \X Goals) \cup {<<NaNCell, NaNCell>>}}

\* Team 3 plays in no row of the season and tier tables.
QueryTeams == {1, 2, 3}

\* ------------------------------------------------------------------------
\* State machine
\* ------------------------------------------------------------------------
NoOut == [op |-> "none"]

Init ==
    /\ all_matches = {}
    /\ out = NoOut

\* A behaviour loads a match table row by row and then makes one call on it:
\* the calls read the table and nothing else, so each is checked on its own,
\* and out holds the call and what it returned.
\*
\* A row is loaded into the table.  A team plays at most one match on a date.
AddMatch(m, max_matches) ==
    /\ out = NoOut
    /\ Cardinality(all_matches) < max_matches
    /\ m.home_team_id # m.away_team_id
    /\ \A x \in all_matches :
          x.match_date = m.match_date =>
             {x.home_team_id, x.away_team_id} \cap {m.home_team_id, m.away_team_id} = {}
    /\ all_matches' = all_matches \cup {m}
    /\ UNCHANGED out

CalcSeasonPPM(team_id, match_date) ==
    /\ out = NoOut
    /\ out' = [op |-> "season_ppm", team_id |-> team_id, match_date |-> match_date,
               value |-> calculate_team_points_per_match_season(all_matches, team_id,
                                                                match_date)]
    /\ UNCHANGED all_matches

CalcTierStats(team_id, match_date) ==
    /\ out = NoOut
    /\ out' = [op |-> "tier", team_id |-> team_id, match_date |-> match_date,
               value |-> [t \in Tiers |->
                            calculate_team_stats_against(all_matches, team_id,
                                                         match_date, t)]]
    /\ UNCHANGED all_matches

CalcLast5(team_id, match_date, n) ==
    /\ out = NoOut
    /\ out' = [op |-> "last5", team_id |-> team_id, match_date |-> match_date,
               n |-> n,
               value |-> calculate_last_5_stats(all_matches, match_date, team_id, n)]
    /\ UNCHANGED all_matches

\* The last-5 columns the team analyzer (team 1) or the opponent analyzer
\* writes for a match of the date.
WriteLast5Columns(team_id, match_date) ==
    /\ out = NoOut
    /\ out' = [op |-> "l5cols", team_id |-> team_id, match_date |-> match_date,
               value |-> IF team_id = 1
                         THEN rm_last_5_columns(all_matches, match_date)
                         ELSE opp_last_5_columns(all_matches, match_date, team_id)]
    /\ UNCHANGED all_matches

\* A call of one of the five calculate_OP_<key> wrappers.
CalcOPL5(team_id, match_date, key) ==
    /\ out = NoOut
    /\ out' = [op |-> "op_l5", team_id |-> team_id, match_date |-> match_date,
               key |-> key,
               value |-> calculate_OP_L5(all_matches, match_date, team_id, key)]
    /\ UNCHANGED all_matches

\* The two last-5 paths called for Real Madrid with the same date and count.
CalcBothLast5(match_date, n) ==
    /\ out = NoOut
    /\ out' = [op |-> "both_l5", team_id |-> 1, match_date |-> match_date, n |-> n,
               rm |-> calculate_real_madrid_last_5(all_matches, match_date, n),
               opp |-> calculate_opponent_last_5(all_matches, match_date, 1, n)]
    /\ UNCHANGED all_matches

NextForm ==
    \/ \E m \in FormRows : AddMatch(m, MaxMatches)
    \/ \E t \in {1, 2}, d \in FormQueryDates, n \in 1..MaxLastN : CalcLast5(t, d, n)
    \/ \E t \in {1, 2}, d \in FormQueryDates : WriteLast5Columns(t, d)
    \/ \E d \in FormQueryDates, n \in 1..MaxLastN : CalcBothLast5(d, n)

SpecForm == Init /\ [][NextForm]_vars

NextWrappers ==
    \/ \E m \in FormRows : AddMatch(m, MaxMatches)
    \/ \E t \in {2, 3}, d \in FormQueryDates, key \in L5Keys : CalcOPL5(t, d, key)

SpecWrappers == Init /\ [][NextWrappers]_vars

CalcH2H(opp_id, match_date, last_n) ==
    /\ out = NoOut
    /\ out' = [op |-> "h2h", team_id |-> opp_id, match_date |-> match_date,
               n |-> last_n,
               value |-> calculate_h2h_stats(rm_matches(all_matches), opp_id,
                                             match_date, last_n)]
    /\ UNCHANGED all_matches

InitH2H ==
    /\ all_matches \in {{}, ExampleMeetings}
    /\ out = NoOut

CalcH2HOverallPPM(opp_id, match_date) ==
    /\ out = NoOut
    /\ out' = [op |-> "h2h_overall", team_id |-> opp_id, match_date |-> match_date,
               value |-> calculate_h2h_overall_ppm(rm_matches(all_matches), opp_id,
                                                   match_date)]
    /\ UNCHANGED all_matches

IsPlayingBefore(team_id, match_date) ==
    /\ out = NoOut
    /\ out' = [op |-> "h2h_exists", team_id |-> team_id, match_date |-> match_date,
               value |-> is_playing_before(rm_matches(all_matches), match_date, team_id)]
    /\ UNCHANGED all_matches

\* One turn of the loop of H2HAnalyzer.calculate_h2h_statistics: the columns
\* of a match of Real Madrid.
CalcMatchH2HStats(match) ==
    /\ out = NoOut
    /\ match \in rm_matches(all_matches)
    /\ LET match_date == match.match_date
           opponent_id == IF match.home_team_id # 1 THEN match.home_team_id
                                                   ELSE match.away_team_id
       IN out' = [op |-> "h2h_row", match |-> match, team_id |-> opponent_id,
                  match_date |-> match_date,
                  value |-> calculate_match_h2h_stats(rm_matches(all_matches),
                                                      match_date, opponent_id)]
    /\ UNCHANGED all_matches

NextH2H ==
    \/ \E m \in H2HRows : AddMatch(m, MaxMatches)
    \/ \E t \in {2, 3}, d \in H2HQueryDates, n \in (1..MaxLastN) \cup {LAST_N} :
          CalcH2H(t, d, n)
    \/ \E t \in {2, 3}, d \in H2HQueryDates : CalcH2HOverallPPM(t, d)
    \/ \E t \in {2, 3}, d \in H2HQueryDates : IsPlayingBefore(t, d)
    \/ \E m \in H2HRows \cup ExampleMeetings : CalcMatchH2HStats(m)

SpecH2H == InitH2H /\ [][NextH2H]_vars

\* One turn of the per-match loops: the features of a match of Real Madrid,
\* computed for its date and its opponent.
ComputeMatchFeatures(match) ==
    /\ out = NoOut
    /\ match \in rm_matches(all_matches)
    /\ LET match_date == match.match_date
           opponent_id == IF match.home_team_id # 1 THEN match.home_team_id
                                                   ELSE match.away_team_id
       IN out' = [op |-> "row", match |-> match, team_id |-> opponent_id,
                  match_date |-> match_date,
                  value |-> match_features(all_matches, opponent_id, match_date)]
    /\ UNCHANGED all_matches

Next ==
    \/ \E m \in RowTable : AddMatch(m, MaxMatches)
    \/ \E m \in RowTable : ComputeMatchFeatures(m)

Spec == Init /\ [][Next]_vars

GetSeason(match_date) ==
    /\ out = NoOut
    /\ out' = [op |-> "season", match_date |-> match_date,
               value |-> get_season(match_date)]
    /\ UNCHANGED all_matches

GetPreviousSeason(season) ==
    /\ out = NoOut
    /\ out' = [op |-> "previous_season", season |-> season,
               value |-> get_previous_season(season)]
    /\ UNCHANGED all_matches

NextCalendar ==
    \/ \E d \in CalendarDates : GetSeason(d)
    \/ \E season \in SeasonInputs : GetPreviousSeason(season)

SpecCalendar == Init /\ [][NextCalendar]_vars

\* The frames a call can be made on: none once the call of the behaviour has
\* been made.
Uncalled(frames) == IF out = NoOut THEN frames ELSE {}

\* DataFrameImputer(df).run() on a final frame.
Impute(df) ==
    /\ out = NoOut
    /\ out' = [op |-> "impute", df |-> df, value |-> run(df)]
    /\ UNCHANGED all_matches

\* DataFrameImputer(df).impute_h2h_stats() on a final frame.
ImputeH2H(df) ==
    /\ out = NoOut
    /\ out' = [op |-> "impute_h2h", df |-> df, value |-> impute_h2h_stats(df)]
    /\ UNCHANGED all_matches

NextImputeH2H == \E df \in Uncalled(H2HFrames) : ImputeH2H(df)

SpecImputeH2H == Init /\ [][NextImputeH2H]_vars

NextImpute == \E df \in Uncalled(ImputeFrames) : Impute(df)

SpecImpute == Init /\ [][NextImpute]_vars

\* A per-match loop starts on the Real Madrid rows with an empty dict; only
\* the team analyzer holds coach data.
StartLoop(analyzer, coach_data) ==
    /\ out = NoOut
    /\ out' = [op |-> "loop", analyzer |-> analyzer, coach_data |-> coach_data,
               todo |-> iterrows(rm_matches(all_matches)),
               match_stats_dict |-> <<>>]
    /\ UNCHANGED all_matches

\* The loop takes its next row.
LoopTurn ==
    /\ out.op = "loop"
    /\ out.todo # <<>>
    /\ out' = [out EXCEPT
                 !.todo = Tail(out.todo),
                 !.match_stats_dict =
                     loop_turn(out.analyzer, all_matches, out.coach_data,
                               out.match_stats_dict, Head(out.todo))]
    /\ UNCHANGED all_matches

NextLoop ==
    \/ \E m \in LoopRows : AddMatch(m, MaxMatches)
    \/ \E coach_data \in CoachTables : StartLoop("team", coach_data)
    \/ \E analyzer \in Analyzers \ {"team"} : StartLoop(analyzer, {})
    \/ LoopTurn

SpecLoop == Init /\ [][NextLoop]_vars

\* RM_C_RT_PS of a match of Real Madrid, before rounding: the call the team
\* loop makes with the date of the match.
CalcCoachRatingLastSeason(match, coach_id) ==
    /\ out = NoOut
    /\ match \in all_matches
    /\ out' = [op |-> "coach_ps", match |-> match, match_date |-> match.match_date,
               value |-> calculate_coach_rating_last_season(all_matches, coach_id,
                                                            match.match_date)]
    /\ UNCHANGED all_matches

NextCoach ==
    \/ \E m \in CoachRows : AddMatch(m, MaxMatches)
    \/ \E m \in CoachRows : CalcCoachRatingLastSeason(m, 1)

SpecCoach == Init /\ [][NextCoach]_vars

\* The two season aggregates of a team for a date: the windows that
\* calculate_team_points_per_match_season and calculate_team_stats_against_tier
\* filter.
CalcWindows(team_id, match_date) ==
    /\ out = NoOut
    /\ out' = [op |-> "windows", team_id |-> team_id, match_date |-> match_date,
               season_ppm |-> season_ppm_window(all_matches, team_id, match_date),
               tiered_stats |-> tier_window(all_matches, team_id, match_date)]
    /\ UNCHANGED all_matches

NextWindow ==
    \/ \E m \in WindowRows : AddMatch(m, MaxMatches)
    \/ \E t \in {1, 2}, d \in WindowQueryDates : CalcWindows(t, d)

SpecWindow == Init /\ [][NextWindow]_vars

\* process_all_matches on the loaded matches, players data being there for
\* the matches of with_players.
ProcessAllMatches(with_players) ==
    /\ out = NoOut
    /\ out' = [op |-> "aggregate", match_players_dict |-> with_players,
               value |-> process_all_matches(all_matches, with_players)]
    /\ UNCHANGED all_matches

NextAggregate ==
    \/ \E m \in AggregateRows : AddMatch(m, MaxMatches)
    \/ \E with_players \in SUBSET all_matches : ProcessAllMatches(with_players)

SpecAggregate == Init /\ [][NextAggregate]_vars

\* calculate_ppm on the loaded season file.
CalculatePPM ==
    /\ out = NoOut
    /\ out' = [op |-> "ppm", value |-> calculate_ppm(all_matches)]
    /\ UNCHANGED all_matches

NextPPM ==
    \/ \E m \in SeasonFileRows : AddMatch(m, MaxSeasonRows)
    \/ CalculatePPM

SpecPPM == Init /\ [][NextPPM]_vars

NextSeason ==
    \/ \E m \in SeasonRows : AddMatch(m, MaxMatches)
    \/ \E t \in QueryTeams, d \in SeasonQueryDates : CalcSeasonPPM(t, d)

SpecSeason == Init /\ [][NextSeason]_vars

NextTier ==
    \/ \E m \in TierRows : AddMatch(m, MaxTierMatches)
    \/ \E t \in {1, 2}, d \in TierQueryDates : CalcTierStats(t, d)

SpecTier == Init /\ [][NextTier]_vars

\* ------------------------------------------------------------------------
\* Claims on the season points-per-match and the tiered statistics
\* ------------------------------------------------------------------------
\* The season that precedes the season of the date.
PrevSeasonOf(match_date) == get_previous_season(get_season(match_date))

\* PPM of the side of row m that is not team_id.
opponent_ppm(m, team_id) == IF m.home_team_id = team_id THEN m.PPM_A ELSE m.PPM_H

\* The window of the last tier call recorded in out.
OutTierWindow ==
    tier_filtered_matches(all_matches, out.team_id, out.match_date,
                          PrevSeasonOf(out.match_date))

OutTierMatches(t) ==
    tier_matches(OutTierWindow, out.team_id, tier_min_ppm(t), tier_max_ppm(t))

\* A tier call that got as far as the tier filter.
OutTierFiltered ==
    /\ out.op = "tier"
    /\ \A t \in Tiers : out.value[t] # Raised
    /\ \A t \in Tiers : out.value[t].goals # PyFalse

\* C2: season_ppm counts only matches of the season immediately preceding the
\* season of the date, dated strictly before the date; no match of the season
\* of the date is counted.
C2_OnlyPreviousSeasonCounted ==
    (out.op = "season_ppm" /\ IsNum(out.value)
        /\ PrevSeasonOf(out.match_date).kind = "season")
    => \A m \in season_filtered_matches(all_matches, out.team_id, out.match_date,
                                        PrevSeasonOf(out.match_date)) :
          /\ m.match_date < out.match_date
          /\ get_season(m.match_date) = PrevSeasonOf(out.match_date)

\* C3: a match is in TOP iff the opponent's PPM >= 1.9, in MID iff
\* 1.2 <= PPM < 1.9 and in LOW iff PPM < 1.2 (stated for the teams other than
\* Real Madrid, whose rows are filtered on the opponent's side).
C3_TierThresholds ==
    (OutTierFiltered /\ out.team_id # 1)
    => \A m \in OutTierWindow :
          LET ppm == opponent_ppm(m, out.team_id)
          IN  /\ m \in OutTierMatches("TOP") <=> ppm >= TOP_TIER_MIN_PPM
              /\ m \in OutTierMatches("MID")
                    <=> (MID_TIER_MIN_PPM <= ppm /\ ppm < MID_TIER_MAX_PPM)
              /\ m \in OutTierMatches("LOW") <=> ppm < LOW_TIER_MAX_PPM

\* C4: the TOP, MID and LOW match counts of a non-empty window sum to the
\* number of matches of the window.
C4_TierPartitionComplete ==
    (OutTierFiltered /\ OutTierWindow # {})
    => Cardinality(OutTierMatches("TOP")) + Cardinality(OutTierMatches("MID"))
         + Cardinality(OutTierMatches("LOW")) = Cardinality(OutTierWindow)

\* The PPM test of a tier call, applied to one PPM value.
InTierRange(ppm, t) ==
    IF tier_max_ppm(t) = NoMax THEN ppm > tier_min_ppm(t)
    ELSE ppm >= tier_min_ppm(t) /\ ppm <= tier_max_ppm(t)[1]

\* C5: the tier of a match is decided by the PPM of the opponent, for Real
\* Madrid as for any other team; the team's own PPM never decides it.
C5_TierByOpponentPPM ==
    OutTierFiltered
    => \A t \in Tiers : \A m \in OutTierWindow :
          m \in OutTierMatches(t) <=> InTierRange(opponent_ppm(m, out.team_id), t)

FirstSeasonQuery ==
    /\ out.op = "season_ppm"
    /\ get_season(out.match_date) = seasons[1]

C7_AbsentOnEmptyWindowOrNoSeason ==
    out.op = "season_ppm"
    => /\ get_season(out.match_date) = PyNone => IsAbsent(out.value)
       /\ (/\ PrevSeasonOf(out.match_date).kind = "season"
           /\ season_filtered_matches(all_matches, out.team_id, out.match_date,
                                      PrevSeasonOf(out.match_date)) = {})
          => IsAbsent(out.value)

\* ------------------------------------------------------------------------
\* Claims on the last-N form
\* ------------------------------------------------------------------------
\* The matches of the team of out, home or away, dated before the date of out.
OutPriorMatches ==
    {m \in all_matches : plays(m, out.team_id) /\ m.match_date < out.match_date}

\* The n most recent rows of T, all of T when it has fewer.
MostRecent(T, n) ==
    {m \in T : Cardinality({x \in T : x.match_date > m.match_date}) < n}

goals_for(m, team_id) == IF m.home_team_id = team_id THEN m.home_goals ELSE m.away_goals

goals_against(m, team_id) ==
    IF m.home_team_id = team_id THEN m.away_goals ELSE m.home_goals

\* Points of team_id in row m: 3 win, 1 draw, 0 loss.
points_of(m, team_id) ==
    IF goals_for(m, team_id) > goals_against(m, team_id) THEN 3
    ELSE IF goals_for(m, team_id) = goals_against(m, team_id) THEN 1 ELSE 0

\* C8: last_n_stats of a team with no match before the date is an absence
\* marker, never a dict, and the five last-5 columns written for the match
\* are NaN, not 0.
C8_AbsentOnNoPriorMatch ==
    (out.op \in {"last5", "l5cols"} /\ OutPriorMatches = {})
    => /\ out.op = "last5" => IsAbsent(out.value)
       /\ out.op = "l5cols" => \A k \in L5Keys : out.value[k] = NaN

\* The team analyzer wrote the last-5 columns of a match of Real Madrid that
\* has no match before it, in a table that is not empty.
C8_Witness ==
    /\ out.op = "l5cols"
    /\ out.team_id = 1
    /\ all_matches # {}
    /\ OutPriorMatches = {}
    /\ \A k \in L5Keys : out.value[k] = NaN

\* C9: last_n_stats uses the min(n, k) most recent of the k matches of the
\* team before the date, and each of the five averages is the sum over those
\* matches divided by their number, not by n.
C9_MostRecentAveraged ==
    (out.op = "last5" /\ OutPriorMatches # {})
    => LET S == MostRecent(OutPriorMatches, out.n)
           used == Cardinality(S)
           t == out.team_id
       IN  /\ used = (IF out.n < Cardinality(OutPriorMatches)
                      THEN out.n ELSE Cardinality(OutPriorMatches))
           /\ out.value.kind = "dict"
           /\ out.value.G_SCO_L5 = Num(SumOf([m \in S |-> goals_for(m, t)], S), used)
           /\ out.value.G_CON_L5 = Num(SumOf([m \in S |-> goals_against(m, t)], S), used)
           /\ out.value.GDIF_L5 =
                 Num(SumOf([m \in S |-> goals_for(m, t) - goals_against(m, t)], S), used)
           /\ out.value.PPM_L5 = Num(SumOf([m \in S |-> points_of(m, t)], S), used)
           /\ out.value.OPP_PPM_L5 =
                 Num(SumOf([m \in S |-> opponent_ppm(m, t)], S), used * 10)

\* Fewer matches than n are used as they are, and more than n are cut to n.
C9_Witness ==
    /\ out.op = "last5"
    /\ out.n = 2
    /\ Cardinality(OutPriorMatches) = 3
    /\ out.value.kind = "dict"
    /\ out.value.PPM_L5.d = 2

C9_WitnessFewer ==
    /\ out.op = "last5"
    /\ out.n = 2
    /\ Cardinality(OutPriorMatches) = 1
    /\ out.value.kind = "dict"
    /\ out.value.PPM_L5.d = 1

\* ------------------------------------------------------------------------
\* Claims on the head-to-head summary
\* ------------------------------------------------------------------------
\* The meetings of Real Madrid and the team of out before the date of out.
OutPriorMeetings ==
    {m \in all_matches :
        /\ {m.home_team_id, m.away_team_id} = {REAL_MADRID_ID, out.team_id}
        /\ m.match_date < out.match_date}

\* C10: over the window W of the most recent at most n meetings before the
\* date, win_ratio = wins of team_a / |W|, points_per_match =
\* (3 * wins + draws) / |W| and goal_balance = goals of team_a - goals of
\* team_b; the meetings 3-0, 1-1 and 1-2 give 1/3, 4/3 and +2.
C10_H2HSummary ==
    (out.op = "h2h" /\ OutPriorMeetings # {})
    => LET W == MostRecent(OutPriorMeetings, out.n)
           wins == Cardinality({m \in W : points_of(m, REAL_MADRID_ID) = 3})
           draws == Cardinality({m \in W : points_of(m, REAL_MADRID_ID) = 1})
       IN  /\ out.value.kind = "dict"
           /\ out.value.win_ratio = Num(wins, Cardinality(W))
           /\ out.value.points_per_match = Num(3 * wins + draws, Cardinality(W))
           /\ out.value.goals_balance =
                 SumOf([m \in W |-> goals_for(m, REAL_MADRID_ID)], W)
                 - SumOf([m \in W |-> goals_against(m, REAL_MADRID_ID)], W)
           /\ (all_matches = ExampleMeetings /\ out.team_id = 2
                 /\ out.match_date = 20220201 /\ out.n = LAST_N)
              => /\ NumEq(out.value.win_ratio, Num(1, 3))
                 /\ NumEq(out.value.points_per_match, Num(4, 3))
                 /\ out.value.goals_balance = 2

\* The summary of the three example meetings has been computed.
C10_Witness ==
    /\ all_matches = ExampleMeetings
    /\ out.op = "h2h"
    /\ out.team_id = 2
    /\ out.match_date = 20220201
    /\ out.n = LAST_N
    /\ out.value.kind = "dict"
    /\ out.value.win_ratio = Num(1, 3)

\* C11: is_playing_before returns a boolean that is true exactly when a
\* meeting of the two teams is dated before the date, and in every row
\* H2H_EXISTS is 1 exactly when the last-5 summary and the overall PPM are
\* present, 0 exactly when they are absent.
C11_ExistsIffMeetingBefore ==
    /\ out.op = "h2h_exists"
       => /\ out.value \in {PyTrue, PyFalse}
          /\ out.value = PyTrue <=> OutPriorMeetings # {}
    /\ out.op = "h2h_row"
       => /\ out.value.H2H_EXISTS \in {0, 1}
          /\ out.value.H2H_EXISTS = 1 <=> OutPriorMeetings # {}
          /\ out.value.H2H_EXISTS = 1
             => /\ IsNum(out.value.H2H_RM_W_L5) /\ IsNum(out.value.H2H_PPM_L5)
                /\ out.value.H2H_RM_GDIF_L5 \in Int
                /\ IsNum(out.value.H2H_PPM)
          /\ out.value.H2H_EXISTS = 0
             => /\ out.value.H2H_RM_W_L5 = NaN /\ out.value.H2H_PPM_L5 = NaN
                /\ out.value.H2H_RM_GDIF_L5 = NaN
                /\ out.value.H2H_PPM = NaN

\* The row of a match with an earlier meeting has been written, with
\* H2H_EXISTS 1 and a win ratio.
C11_Witness ==
    /\ out.op = "h2h_row"
    /\ OutPriorMeetings # {}
    /\ out.value.H2H_EXISTS = 1
    /\ IsNum(out.value.H2H_RM_W_L5)

\* The row of a first meeting has been written: H2H_EXISTS 0, nothing else.
C11_WitnessFirstMeeting ==
    /\ out.op = "h2h_row"
    /\ all_matches # {}
    /\ OutPriorMeetings = {}
    /\ out.value.H2H_EXISTS = 0

\* C12: overall_ppm applies the points formula of the summary to all meetings
\* before the date: with at most n prior meetings it equals the
\* points_per_match of last_n_summary(n), and both are absent with none.
C12_OverallEqualsUnwindowed ==
    out.op = "h2h_overall"
    => \A n \in 1..LAST_N :
          Cardinality(OutPriorMeetings) <= n
          => LET summary == calculate_h2h_stats(rm_matches(all_matches), out.team_id,
                                                out.match_date, n)
             IN  IF OutPriorMeetings = {}
                 THEN summary = PyNone /\ out.value = PyNone
                 ELSE /\ summary.kind = "dict"
                      /\ IsNum(out.value)
                      /\ out.value = summary.points_per_match

\* The overall PPM of the three example meetings, a win, a draw and a loss.
C12_Witness ==
    /\ out.op = "h2h_overall"
    /\ all_matches = ExampleMeetings
    /\ out.team_id = 2
    /\ out.match_date = 20220201
    /\ out.value = Num(4, 3)

\* The table with the ids of Real Madrid and of team b exchanged in every
\* row: the summary of it is the summary from the side of team b.
SwapTeams(df, b) ==
    LET sw(t) == IF t = REAL_MADRID_ID THEN b ELSE IF t = b THEN REAL_MADRID_ID ELSE t
    IN  {Row(m.match_date, sw(m.home_team_id), sw(m.away_team_id), m.home_goals,
             m.away_goals, m.PPM_H, m.PPM_A) : m \in df}

\* The draws of the window of the summary of out.
OutWindowDraws ==
    Cardinality({m \in MostRecent(OutPriorMeetings, out.n) : m.home_goals = m.away_goals})

\* C13: the wins of the two sides over a window add up to the meetings that
\* are no draws, a draw being a win of neither; so over a window with no
\* draws win_ratio(A, B) = 1 - win_ratio(B, A).
C13_H2HSymmetry ==
    (out.op = "h2h" /\ out.value # PyNone)
    => LET other == calculate_h2h_stats(SwapTeams(rm_matches(all_matches), out.team_id),
                                        out.team_id, out.match_date, out.n)
       IN  /\ other # PyNone
           /\ other.win_ratio.d = out.value.win_ratio.d
           /\ out.value.win_ratio.n + other.win_ratio.n
                 = out.value.win_ratio.d - OutWindowDraws
           /\ OutWindowDraws = 0
              => out.value.win_ratio.n = out.value.win_ratio.d - other.win_ratio.n

\* A summary over a window of two decided meetings, one won by each side.
C13_Witness ==
    /\ out.op = "h2h"
    /\ out.value # PyNone
    /\ out.n = 2
    /\ Cardinality(OutPriorMeetings) = 2
    /\ OutWindowDraws = 0
    /\ out.value.win_ratio = Num(1, 2)

\* C15: whenever the summary returns a value, win_ratio lies in [0, 1].
C15_WinRatioBounds ==
    (out.op = "h2h" /\ out.value # PyNone)
    => /\ out.value.win_ratio.d > 0
       /\ 0 <= out.value.win_ratio.n
       /\ out.value.win_ratio.n <= out.value.win_ratio.d

\* A summary over three meetings all won by Real Madrid: win_ratio 1.
C15_Witness ==
    /\ out.op = "h2h"
    /\ out.value # PyNone
    /\ out.value.win_ratio = Num(3, 3)

\* ------------------------------------------------------------------------
\* Claim on look-ahead
\* ------------------------------------------------------------------------
\* What is known of the table before the match: the rows dated strictly
\* before it and the fixture itself, without its outcome and without any row
\* dated on or after it.  Two tables holding the match that agree on the rows
\* dated before it have the same such table.
KnownBefore(matches, match) ==
    {m \in matches : m.match_date < match.match_date}
    \cup {Row(match.match_date, match.home_team_id, match.away_team_id, 0, 0, 0, 0)}

\* C1: the last-5, season PPM, tier and head-to-head features computed for a
\* match of date D depend only on matches dated strictly before D: they are
\* the features of the table cut down to its rows before D, so two tables that
\* agree before D yield the same features whatever happens on or after D.
C1_NoLookAhead ==
    out.op = "row"
    => out.value = match_features(KnownBefore(all_matches, out.match),
                                  out.team_id, out.match_date)

\* Features were computed for a decided match with a match before it and a
\* decided match after it, and the season PPM of Real Madrid is a number.
C1_Witness ==
    /\ out.op = "row"
    /\ out.match.home_goals # out.match.away_goals
    /\ \E m \in all_matches : m.match_date < out.match_date
    /\ \E m \in all_matches : m.match_date > out.match_date /\ m.home_goals # m.away_goals
    /\ IsNum(out.value.RM_PPM_SEA)

\* ------------------------------------------------------------------------
\* Claim on the range of the points per match
\* ------------------------------------------------------------------------
\* A value that is a number lies in [0, 3].
InPPMRange(v) == IsNum(v) => (v.d > 0 /\ 0 <= v.n /\ v.n <= 3 * v.d)

\* C14: the points per match of the last-5 dicts (RM_PPM_L5, OP_PPM_L5) and
\* the season PPM (RM_PPM_SEA, OP_PPM_SEA), whenever present, lie in [0, 3].
C14_PPMBounds ==
    out.op = "row"
    => /\ out.value.RM_L5.kind = "dict" => InPPMRange(out.value.RM_L5.PPM_L5)
       /\ out.value.OP_L5.kind = "dict" => InPPMRange(out.value.OP_L5.PPM_L5)
       /\ InPPMRange(out.value.RM_PPM_SEA)
       /\ InPPMRange(out.value.OP_PPM_SEA)

\* A row whose four values are all numbers, the opponent at 3 points a match
\* over the previous season.
C14_Witness ==
    /\ out.op = "row"
    /\ out.value.RM_L5.kind = "dict"
    /\ out.value.OP_L5.kind = "dict"
    /\ IsNum(out.value.RM_PPM_SEA)
    /\ IsNum(out.value.OP_PPM_SEA)
    /\ out.value.OP_PPM_SEA.n = 3 * out.value.OP_PPM_SEA.d

\* ------------------------------------------------------------------------
\* Claims on the season calendar
\* ------------------------------------------------------------------------
\* The seasons of the list whose range, both ends in, holds the date.
Covering(match_date) ==
    {i \in DOMAIN seasons :
        seasons[i].start_date <= match_date /\ match_date <= seasons[i].end_date}

\* C16: get_season returns the season whose range holds the date, start_date
\* and end_date both inclusive, and None for a date no season covers.
C16_SeasonForDate ==
    out.op = "season"
    => IF Covering(out.match_date) = {}
       THEN out.value = PyNone
       ELSE \E i \in Covering(out.match_date) : out.value = seasons[i]

\* The last day of season 2019-2020 is in that season.
C16_Witness ==
    /\ out.op = "season"
    /\ out.match_date = SEASON_DATES[1][2]
    /\ out.value = seasons[1]

\* The day after it is in the gap before season 2020-2021: None.
C16_WitnessGap ==
    /\ out.op = "season"
    /\ out.match_date = SEASON_DATES[1][2] + 1
    /\ out.value = PyNone

\* C17: get_previous_season returns the season just before the given one in
\* the list, a sentinel that is neither None nor a season for the earliest
\* season, and None for a season that is not recognized.
C17_PreviousSeason ==
    out.op = "previous_season"
    => LET known == {i \in DOMAIN seasons : seasons[i] = out.season}
       IN  /\ known = {} => out.value = PyNone
           /\ \A i \in known :
                 IF i = 1
                 THEN /\ out.value # PyNone
                      /\ \A j \in DOMAIN seasons : out.value # seasons[j]
                      /\ out.value.kind # "season"
                 ELSE out.value = seasons[i - 1]

\* The earliest season has been asked for: the sentinel.
C17_Witness ==
    /\ out.op = "previous_season"
    /\ out.season = seasons[1]
    /\ out.value = PyTrue

\* C18: the season ranges are ordered and do not overlap, each season ending
\* before the next starts, so a date is in at most one season and the first
\* match of get_season is the only one.
C18_SeasonsDisjointOrdered ==
    /\ \A i \in DOMAIN seasons : seasons[i].start_date <= seasons[i].end_date
    /\ \A i \in DOMAIN seasons :
          i + 1 \in DOMAIN seasons => seasons[i].end_date < seasons[i + 1].start_date
    /\ out.op = "season" => Cardinality(Covering(out.match_date)) <= 1

\* A date of the second season has been looked up and one season holds it.
C18_Witness ==
    /\ out.op = "season"
    /\ out.match_date = SEASON_DATES[2][1]
    /\ Cardinality(Covering(out.match_date)) = 1
    /\ out.value = seasons[2]

\* ------------------------------------------------------------------------
\* Claim on imputation
\* ------------------------------------------------------------------------
\* C19: after the imputation step (DataFrameImputer.run) the returned table
\* holds no missing (NaN) cell, for every input table.
C19_NoNaNAfterImputation ==
    out.op = "impute"
    => \A i \in DOMAIN out.value : \A col \in ImputedColumns : out.value[i][col] # NaN

\* ------------------------------------------------------------------------
\* Claims on the per-match loops
\* ------------------------------------------------------------------------
\* The rows the loop of out has taken so far.
OutProcessed == rm_matches(all_matches) \ RowsOf(out.todo)

OpponentOf(m) == IF m.home_team_id # 1 THEN m.home_team_id ELSE m.away_team_id

\* The team loop finds no coach for the match.
OutNoCoach(m) ==
    out.analyzer = "team" /\ get_coach_id_by_date(out.coach_data, m.match_date) = PyNone

\* The try block of the loop of out raises on the match.
OutRaised(m) ==
    CASE out.analyzer = "team" ->
           /\ ~OutNoCoach(m)
           /\ team_try_block(all_matches, m.match_date,
                             get_coach_id_by_date(out.coach_data, m.match_date)) = Raised
      [] out.analyzer = "opponent" ->
           opponent_try_block(all_matches, m.match_date, OpponentOf(m)) = Raised
      [] OTHER -> FALSE

\* The feature columns of the entry are all NaN.
OutEntryAbsent(m) ==
    \A col \in DOMAIN out.match_stats_dict[m] :
        col # "RM_C_ID" => out.match_stats_dict[m][col] = NaN

C21_WrapperNeverRaises ==
    out.op = "op_l5" =>
        /\ out.value # Raised
        /\ OutPriorMatches = {} => out.value = NaN

\* The columns of the team entry that hold the goals and the points per match
\* against a tier.
GPMColumn(t) ==
    CASE t = "TOP" -> "RM_GPM_VS_TOP" [] t = "MID" -> "RM_GPM_VS_MID"
      [] t = "LOW" -> "RM_GPM_VS_LOW"

PPMColumn(t) ==
    CASE t = "TOP" -> "RM_PPM_VS_TOP" [] t = "MID" -> "RM_PPM_VS_MID"
      [] t = "LOW" -> "RM_PPM_VS_LOW"

\* Real Madrid's statistics against the tier cannot be computed for the date:
\* there is no previous season, or no match of the tier in the window.
NoTierStats(match_date, t) ==
    \/ PrevSeasonOf(match_date).kind # "season"
    \/ tier_matches(tier_filtered_matches(all_matches, 1, match_date,
                                          PrevSeasonOf(match_date)),
                    1, tier_min_ppm(t), tier_max_ppm(t)) = {}

\* C22: absence is never collapsed into zero: in the entry the team loop
\* writes for a match, a tier statistic that could not be computed (no
\* previous season, no match of the tier in the window) is NaN, never the
\* number 0, and so are the last-5 columns of a first match.
C22_AbsentNeverZero ==
    (out.op = "loop" /\ out.analyzer = "team")
    => \A m \in DOMAIN out.match_stats_dict :
          /\ \A t \in Tiers :
                NoTierStats(m.match_date, t)
                => /\ out.match_stats_dict[m][GPMColumn(t)] = NaN
                   /\ out.match_stats_dict[m][PPMColumn(t)] = NaN
          /\ {x \in rm_matches(all_matches) : x.match_date < m.match_date} = {}
                => out.match_stats_dict[m]["RM_PPM_L5"] = NaN

\* ------------------------------------------------------------------------
\* Claims on the PPM columns of the season files
\* ------------------------------------------------------------------------
\* Points of the team in a row whose result is known.
row_points(x, team_id) ==
    IF isna(x.home_goals) \/ isna(x.away_goals) THEN 0
    ELSE IF x.home_goals = x.away_goals THEN 1
    ELSE IF (x.home_team_id = team_id) = (x.home_goals > x.away_goals) THEN 3
    ELSE 0

\* PPM of the team over the rows of E it plays in, counted as calculate_ppm
\* counts matches.
PPMOver(E, team_id) ==
    LET T == {x \in E : plays(x, team_id)}
    IN  ppm_before(SumOf([x \in T |-> row_points(x, team_id)], T), Cardinality(T))

\* C23: the PPM_H and PPM_A stored on a row are the two sides' PPM as of
\* kickoff: computed from the rows dated strictly before the row, never from
\* its own result or a later-dated match, whatever the rounds.
C23_PPMAsOfKickoff ==
    out.op = "ppm"
    => \A i \in DOMAIN out.value :
          LET r == out.value[i].row
              before == {x \in all_matches : x.match_date < r.match_date}
          IN  /\ NumEq(out.value[i].PPM_H, PPMOver(before, r.home_team_id))
              /\ NumEq(out.value[i].PPM_A, PPMOver(before, r.away_team_id))

\* PPM of the team over the rows of E it plays in whose result is known.
PlayedPPMOver(E, team_id) ==
    PPMOver({x \in E : ~isna(x.home_goals) /\ ~isna(x.away_goals)}, team_id)

\* C24: the PPM of a team on a row is the points it earned in earlier rows
\* divided by the matches it played in earlier rows, 0.0 when it played none;
\* a row without a known result adds no points and is not a played match.
C24_PPMOfEarlierRows ==
    out.op = "ppm"
    => \A i \in DOMAIN out.value :
          LET r == out.value[i].row
              earlier == {out.value[j].row : j \in 1..(i - 1)}
          IN  /\ NumEq(out.value[i].PPM_H, PlayedPPMOver(earlier, r.home_team_id))
              /\ NumEq(out.value[i].PPM_A, PlayedPPMOver(earlier, r.away_team_id))

\* ------------------------------------------------------------------------
\* Claims on the coach ratings
\* ------------------------------------------------------------------------
\* The rows dated strictly before the date of the call recorded in out.
OutRowsBefore == {x \in all_matches : x.match_date < out.match_date}

\* Two returned values are the same number, or both NaN.
SameValue(v, w) == IF IsNum(v) /\ IsNum(w) THEN NumEq(v, w) ELSE v = w

\* C25: the previous-season coach rating written for a match of date D is an
\* average over matches dated strictly before D only, in the first season
\* too: the rows dated on or after D do not change it.
C25_CoachRatingNoLookAhead ==
    out.op = "coach_ps"
    => SameValue(out.value,
                 calculate_coach_rating_last_season(OutRowsBefore, 1, out.match_date))

\* ------------------------------------------------------------------------
\* Claims on the window of the season aggregates
\* ------------------------------------------------------------------------
\* C26: tiered_stats filters the same match window as season_ppm: for every
\* team and date the matches the tier call considers before the tier filter
\* are the matches the season PPM averages over, with the same start
\* boundary, inclusiveness and first-season treatment.
C26_SameWindow ==
    out.op = "windows" => out.tiered_stats = out.season_ppm

\* ------------------------------------------------------------------------
\* Claims on the imputation steps
\* ------------------------------------------------------------------------
\* C27: impute_h2h_stats writes 0 into a missing H2H statistic only in rows
\* with H2H_EXISTS = 0, and there into every missing one; rows with
\* H2H_EXISTS = 1 are left as they are, and so are H2H_EXISTS and every other
\* column.
C27_ZeroFillOnlyWithoutH2H ==
    out.op = "impute_h2h"
    => /\ DOMAIN out.value = DOMAIN out.df
       /\ \A i \in DOMAIN out.df :
             /\ \A col \in ImputedColumns \ {"H2H_PPM"} :
                   out.value[i][col] = out.df[i][col]
             /\ IF out.df[i].H2H_EXISTS = Num(0, 1) /\ out.df[i].H2H_PPM = NaN
                THEN out.value[i].H2H_PPM = Num(0, 1)
                ELSE out.value[i].H2H_PPM = out.df[i].H2H_PPM

\* A frame of two rows with no H2H_PPM: the row with H2H_EXISTS = 0 is filled
\* with 0, the row with H2H_EXISTS = 1 stays empty.
C27_Witness ==
    /\ out.op = "impute_h2h"
    /\ \E i, j \in DOMAIN out.df :
          /\ out.df[i].H2H_EXISTS = Num(0, 1) /\ out.df[i].H2H_PPM = NaN
          /\ out.value[i].H2H_PPM = Num(0, 1)
          /\ out.df[j].H2H_EXISTS = Num(1, 1) /\ out.df[j].H2H_PPM = NaN
          /\ out.value[j].H2H_PPM = NaN

\* C28: imputation only fills gaps: every cell that holds a value in the
\* frame passed to DataFrameImputer holds the same value in the frame run()
\* returns; an OP_ _L5 cell changes only if it was missing.
C28_OnlyGapsFilled ==
    out.op = "impute"
    => \A i \in DOMAIN out.df : \A col \in ImputedColumns :
          out.df[i][col] # NaN => SameValue(out.value[i][col], out.df[i][col])

\* ------------------------------------------------------------------------
\* Claims on the two last-5 paths
\* ------------------------------------------------------------------------
\* C29: the two last-5 code paths agree for team 1: on a table whose
\* real_result and goals columns follow from home_goals and away_goals,
\* _calculate_real_madrid_last_5 and _calculate_opponent_last_5 with team 1
\* return the same five averages for every date and count; with no match
\* before the date neither returns averages.
C29_Last5PathsAgree ==
    out.op = "both_l5"
    => IF OutPriorMatches = {}
       THEN IsAbsent(out.rm) /\ IsAbsent(out.opp)
       ELSE /\ out.rm.kind = "dict"
            /\ out.opp.kind = "dict"
            /\ \A k \in L5Keys : NumEq(out.rm[k], out.opp[k])

\* Both paths averaged two matches of Real Madrid, one of them drawn away.
C29_Witness ==
    /\ out.op = "both_l5"
    /\ out.n = 2
    /\ Cardinality(OutPriorMatches) >= 2
    /\ \E m \in OutPriorMatches :
          m.away_team_id = 1 /\ m.home_goals = m.away_goals
    /\ out.rm.kind = "dict"
    /\ NumEq(out.rm["PPM_L5"], out.opp["PPM_L5"])

\* ------------------------------------------------------------------------
\* Claims on the row-building loop
\* ------------------------------------------------------------------------
\* C30: a match whose date lies in no season range is treated like absence
\* for that match only: process_all_matches still produces the row of every
\* other match after the start of the second season that has players data.
C30_UncoveredDateIsolated ==
    out.op = "aggregate"
    => \A m \in out.match_players_dict :
          (m.match_date > SEASON_DATES[2][1] /\ get_season(m.match_date) # PyNone)
          => \E i \in DOMAIN out.value : out.value[i].MATCH_ID = m

====
